---- MODULE Spec2Model ----
(***************************************************************************)
(* Model of python/MaterialXTest/tests_to_html.py: the report generator    *)
(* that walks a directory of rendered test images, pairs each source       *)
(* language image with its destination language counterparts, optionally  *)
(* writes pixel difference images, and emits an HTML report.               *)
(*                                                                         *)
(* Strings are sequences of one-character strings, so that slicing,        *)
(* suffix tests and path joins are computed as Python computes them.       *)
(* The report file is the sequence of fh.write calls, one token each.      *)
(***************************************************************************)
EXTENDS Integers, Sequences, FiniteSets

\* ------------------------------------------------------------------ bounds
\* Largest number of source images in the walked tree.
MaxRows == 2

\* ------------------------------------------------------------- characters
glsl == <<"g", "l", "s", "l">>
osl == <<"o", "s", "l">>
mdl == <<"m", "d", "l">>
png == <<".", "p", "n", "g">>
Empty == <<>>
Dot == <<".">>
DirA == <<"A">>
Cwd == <<"/", "w">>
\* Python's None and an unbound local, kept apart from every real string.
None == <<"<None>">>
Unbound == <<"<unbound>">>

TestNames == << <<"a">>, <<"b">>, <<"c">> >>
\* The subdirectories below the walked root.
SubdirNames == << <<"s">> >>
NumSubdirs == Len(SubdirNames)

\* A value Python treats as true in a condition (non-empty string).
Truthy(x) == x # None /\ x # Empty

\* ---------------------------------------------------------- str operations
\* s.endswith(suf)
EndsWith(s, suf) ==
    /\ Len(suf) <= Len(s)
    /\ SubSeq(s, Len(s) - Len(suf) + 1, Len(s)) = suf

\* s.startswith("/") : os.path.isabs on posix
IsAbs(s) == Len(s) > 0 /\ s[1] = "/"

\* s[:-n] (and s[0:-n]): -0 is 0, so n = 0 yields the empty string;
\* a negative start beyond the string clamps to the empty string.
DropLast(s, n) == IF n = 0 THEN Empty ELSE SubSeq(s, 1, Len(s) - n)

\* os.path.join(a, b) on posix, two arguments
Join(a, b) ==
    IF IsAbs(b) THEN b
    ELSE IF a = Empty \/ a[Len(a)] = "/" THEN a \o b
    ELSE a \o <<"/">> \o b

\* s.split("/")
RECURSIVE SplitFrom(_, _, _)
SplitFrom(s, i, cur) ==
    IF i > Len(s) THEN <<cur>>
    ELSE IF s[i] = "/" THEN <<cur>> \o SplitFrom(s, i + 1, Empty)
    ELSE SplitFrom(s, i + 1, Append(cur, s[i]))

Split(s) == SplitFrom(s, 1, Empty)

\* "/".join(comps)
RECURSIVE JoinComps(_)
JoinComps(comps) ==
    IF comps = <<>> THEN Empty
    ELSE IF Len(comps) = 1 THEN comps[1]
    ELSE comps[1] \o <<"/">> \o JoinComps(Tail(comps))

\* os.path.normpath on posix for paths without "..": drops empty and "."
\* components, keeps one leading slash (two when there are exactly two).
InitialSlashes(s) ==
    IF ~IsAbs(s) THEN 0
    ELSE IF Len(s) >= 2 /\ s[2] = "/" /\ ~(Len(s) >= 3 /\ s[3] = "/") THEN 2
    ELSE 1

NormPath(s) ==
    IF s = Empty THEN Dot
    ELSE LET comps == SelectSeq(Split(s), LAMBDA c : c # Empty /\ c # Dot)
             body == JoinComps(comps)
             lead == [k \in 1..InitialSlashes(s) |-> "/"]
             path == lead \o body
         IN IF path = Empty THEN Dot ELSE path

\* os.path.abspath: the file a path names, whatever its spelling
AbsPath(p) == NormPath(IF IsAbs(p) THEN p ELSE Join(Cwd, p))

\* ------------------------------------------------------------ input sets
\* Values of the command line (lines 40-52) and of the module global set
\* at import (lines 8-13).
InputDirs == {Dot, DirA}
InputDirs2 == {Empty, DirA}
InputDirs3 == {Empty, DirA}
SourceLangs == {glsl, osl}
DestLangs == {glsl, osl}
DestLangs2 == {Empty, glsl, mdl}

\* The languages every test of the walked tree has been rendered in.
Rendered == <<glsl, osl>>

\* Files per directory of the walked tree: index 0 is the root.
Trees ==
    LET Sum(f) == LET RECURSIVE S(_)
                      S(k) == IF k < 0 THEN 0 ELSE f[k] + S(k - 1)
                  IN S(NumSubdirs)
    IN {f \in [0..NumSubdirs -> 0..MaxRows] : Sum(f) <= MaxRows}

FileName(test, lang) == test \o <<"_">> \o lang \o png

VARIABLES
    args,           \* the parsed command line
    DIFF_ENABLED,   \* whether the image library was imported
    tree,           \* number of tests in each directory below args.inputdir
    fs,             \* the files on disk, by absolute normalized path
    doc,            \* what has been written to fh
    log,            \* what has been printed
    pc,             \* position in main
    exc,            \* the exception that ended main, if any
    useThirdLang,
    sourceFiles, sourcePaths,
    destFiles, destPaths, destFiles2, destPaths2,
    row,            \* index of the row the report loop is at
    curPath, diffPath, diffPath2, diffPath3,
    call            \* the latest createDiff call and what it did

vars == <<args, DIFF_ENABLED, tree, fs, doc, log, pc, exc, useThirdLang,
          sourceFiles, sourcePaths, destFiles, destPaths, destFiles2,
          destPaths2, row, curPath, diffPath, diffPath2, diffPath3, call>>

Tok(k, v) == [k |-> k, v |-> v]
Lit(s) == <<s>>

\* ---------------------------------------------------------------- os.walk
\* The listing of directory d of the tree: every test in every rendered
\* language.
RECURSIVE ListingFrom(_, _, _)
ListingFrom(n, t, l) ==
    IF t > n THEN <<>>
    ELSE IF l > Len(Rendered) THEN ListingFrom(n, t + 1, 1)
    ELSE <<FileName(TestNames[t], Rendered[l])>> \o ListingFrom(n, t, l + 1)

Listing(tr, d) == ListingFrom(tr[d], 1, 1)

\* os.walk(top): (dirpath, files) pairs, the root first and then each
\* subdirectory as os.path.join(top, name); nothing for an empty top.
Walk(top, tr) ==
    IF top = Empty THEN <<>>
    ELSE [d \in 1..(NumSubdirs + 1) |->
            [subdir |-> IF d = 1 THEN top ELSE Join(top, SubdirNames[d - 1]),
             files |-> Listing(tr, d - 1)]]

RECURSIVE Flatten(_)
Flatten(ss) == IF ss = <<>> THEN <<>> ELSE Head(ss) \o Flatten(Tail(ss))

\* Every (directory, file) pair of the walk, in walk order.
WalkEntries(top, tr) ==
    LET w == Walk(top, tr)
    IN Flatten([d \in 1..Len(w) |->
                  [j \in 1..Len(w[d].files) |->
                      [subdir |-> w[d].subdir, file |-> w[d].files[j]]]])

\* os.path.exists / os.path.isfile of a str path
Exists(files, p) == AbsPath(p) \in files

\* ------------------------------------------------------------- createDiff
\* A createDiff that leaves a file already at the diff path in place.
RemoveExistingSkipped(files, imageDiffPath) == files

\* Lines 17-18: a file already at the diff path is removed.
RemoveExisting(files, imageDiffPath) == files \ {AbsPath(imageDiffPath)}

\* Lines 20-26: the first input that is not on disk, or None when both are.
\* os.path.exists(None) raises TypeError, reported here as "raise".
MissingInput(files, image1Path, image2Path) ==
    IF image1Path = None THEN Lit("raise")
    ELSE IF ~Exists(files, image1Path) THEN image1Path
    ELSE IF image2Path = None THEN Lit("raise")
    ELSE IF ~Exists(files, image2Path) THEN image2Path
    ELSE None

\* createDiff(image1Path, image2Path, imageDiffPath) on the files of the
\* disk and the printed lines; loads is whether opening, differencing and
\* saving the images succeeds.  The except clause (lines 32-35) removes the
\* diff file and prints both input paths; concatenating a None path there
\* raises TypeError out of the handler.
createDiff(files, printed, image1Path, image2Path, imageDiffPath, loads) ==
    LET f1 == RemoveExisting(files, imageDiffPath)
        m == MissingInput(f1, image1Path, image2Path)
    IN IF m = Lit("raise")
       THEN [fs |-> RemoveExisting(f1, imageDiffPath), log |-> printed,
             raised |-> TRUE]
       ELSE IF m # None
       THEN [fs |-> f1, log |-> Append(printed, Tok("missing", m)),
             raised |-> FALSE]
       ELSE IF loads
       THEN [fs |-> f1 \cup {AbsPath(imageDiffPath)}, log |-> printed,
             raised |-> FALSE]
       ELSE [fs |-> RemoveExisting(f1, imageDiffPath),
             log |-> Append(printed,
                        Tok("failed", image1Path \o Lit(", ") \o image2Path)),
             raised |-> FALSE]

NoCall == [made |-> FALSE]

\* A call of createDiff from main: the disk and the output change as
\* createDiff changes them; an exception it lets through ends main.
CallCreateDiff(image1Path, image2Path, imageDiffPath, next) ==
    \E loads \in BOOLEAN :
        LET r == createDiff(fs, log, image1Path, image2Path, imageDiffPath, loads)
        IN /\ fs' = r.fs
           /\ log' = r.log
           /\ call' = [made |-> TRUE,
                       image1Path |-> image1Path,
                       image2Path |-> image2Path,
                       imageDiffPath |-> imageDiffPath,
                       before |-> {p \in {image1Path, image2Path, imageDiffPath} :
                                      p # None /\ Exists(fs, p)},
                       printed |-> SubSeq(r.log, Len(log) + 1, Len(r.log)),
                       raised |-> r.raised]
           /\ IF r.raised
              THEN pc' = "crashed" /\ exc' = "TypeError"
              ELSE pc' = next /\ exc' = exc

\* ------------------------------------------------------- name derivation
\* Line 103
PostFix(a) == a.sourcelang \o png

\* A destination name that drops a fixed eight characters, the length of
\* "glsl.png", whatever the source language.
DestFileNameFixedLength(sourceFile, postFix, lang) ==
    DropLast(sourceFile, 8) \o lang \o png

\* Lines 109 and 118: the source name without the postfix, then the
\* destination language and the extension.
DestFileName(sourceFile, postFix, lang) ==
    DropLast(sourceFile, Len(postFix)) \o lang \o png

\* Lines 142, 148, 150
DiffName(fullSourcePath, langA, langB) ==
    DropLast(fullSourcePath, 8) \o <<"_">> \o langA \o <<"_", "v", "s", "_">>
        \o langB \o <<"_", "d", "i", "f", "f">> \o png

\* Line 74
UseThirdLang(a) ==
    /\ a.destlang2 # Empty
    /\ (a.inputdir # a.inputdir3 \/ a.sourcelang # a.destlang2)

\* Line 108
HasDest(a) == a.inputdir # a.inputdir2 \/ a.sourcelang # a.destlang

\* Lines 84-87
FillDirs(a, third) ==
    LET a2 == IF a.inputdir2 = Empty THEN [a EXCEPT !.inputdir2 = a.inputdir]
              ELSE a
    IN IF third /\ a2.inputdir3 = Empty
       THEN [a2 EXCEPT !.inputdir3 = a2.inputdir] ELSE a2

\* Lines 70-72
DirShown(d) == IF d = Dot THEN Cwd ELSE d

\* Lines 76-79
Heading(a, third) ==
    a.sourcelang \o Lit(" (in: ") \o DirShown(a.inputdir) \o Lit(") vs ")
      \o a.destlang \o Lit(" (in: ") \o DirShown(a.inputdir2) \o Lit(")")
      \o (IF third
          THEN Lit(" vs ") \o a.destlang2 \o Lit(" (in: ")
                 \o DirShown(a.inputdir3) \o Lit(")")
          ELSE Empty)

\* ------------------------------------------------------------------- rows
\* Lines 130-132, for the row the loop is at
fullSourcePath ==
    IF Truthy(sourceFiles[row]) THEN Join(sourcePaths[row], sourceFiles[row])
    ELSE None

fullDestPath ==
    IF Truthy(destFiles[row]) THEN Join(destPaths[row], destFiles[row])
    ELSE None

fullDestPath2 ==
    IF Truthy(destFiles2[row]) THEN Join(destPaths2[row], destFiles2[row])
    ELSE None

\* A group header written for every row, whether or not its directory is
\* that of the row before.
GroupHeaderEveryRow(cur, sourcePath) ==
    (IF cur # Empty THEN <<Tok("/table", Empty)>> ELSE <<>>)
      \o <<Tok("p", NormPath(sourcePath)), Tok("table", Empty)>>

\* Lines 134-139: what is written when the row's directory is not curPath
GroupHeader(cur, sourcePath) ==
    IF cur # sourcePath
    THEN (IF cur # Empty THEN <<Tok("/table", Empty)>> ELSE <<>>)
           \o <<Tok("p", NormPath(sourcePath)), Tok("table", Empty)>>
    ELSE <<>>

\* Lines 141 and 147: whether the diffs of the row are made
DiffActive(a) == DIFF_ENABLED /\ a.CREATE_DIFF

\* Lines 155-158
FileUri(a) == IF IsAbs(a.outputfile) THEN Lit("file:///") ELSE Empty

ImgCell(a, path) == Tok("imgcell", FileUri(a) \o path)

\* Lines 160-170: the image row up to the test of diffPath3
ImageCells(a, src, dst, dst2, d1, d2) ==
    <<Tok("tr", Empty)>>
      \o (IF Truthy(src) THEN <<ImgCell(a, src)>> ELSE <<>>)
      \o (IF Truthy(dst) THEN <<ImgCell(a, dst)>> ELSE <<>>)
      \o (IF Truthy(dst2) THEN <<ImgCell(a, dst2)>> ELSE <<>>)
      \o (IF Truthy(d1) THEN <<ImgCell(a, d1)>> ELSE <<>>)
      \o (IF Truthy(d2) THEN <<ImgCell(a, d2)>> ELSE <<>>)

\* Lines 176-180 (and 181-185, 186-190): one caption cell.  The opening
\* tag and the name are written when the path is set, the timestamp when
\* timestamps are on and the file is there, the closing tag always;
\* os.path.isfile(None) raises TypeError.
CaptionCell(a, files, path, name) ==
    LET open == IF Truthy(path) THEN <<Tok("td", name)>> ELSE <<>>
    IN IF a.ENABLE_TIMESTAMPS /\ path = None
       THEN [toks |-> open, raised |-> TRUE]
       ELSE [toks |-> open
                       \o (IF a.ENABLE_TIMESTAMPS /\ Exists(files, path)
                           THEN <<Tok("ts", path)>> ELSE <<>>)
                       \o <<Tok("/td", Empty)>>,
             raised |-> FALSE]

\* Lines 191-196
DiffCaptions(a, d1, d2, d3) ==
    (IF Truthy(d1)
     THEN <<Tok("diffcap", a.sourcelang \o Lit(" vs. ") \o a.destlang)>>
     ELSE <<>>)
    \o (IF Truthy(d2)
        THEN <<Tok("diffcap", a.sourcelang \o Lit(" vs. ") \o a.destlang2)>>
        ELSE <<>>)
    \o (IF Truthy(d3)
        THEN <<Tok("diffcap", a.destlang \o Lit(" vs. ") \o a.destlang2)>>
        ELSE <<>>)

\* ------------------------------------------------------------------- Init
\* The files of the walked tree, and the diff images an earlier run with
\* the same arguments left in its root directory (the subdirectories have
\* been rendered since).
TreeFiles(top, tr) ==
    LET es == WalkEntries(top, tr)
    IN {AbsPath(Join(es[j].subdir, es[j].file)) : j \in 1..Len(es)}

EarlierDiffs(a, tr) ==
    LET es == WalkEntries(a.inputdir, tr)
        src == {j \in 1..Len(es) : /\ es[j].subdir = a.inputdir
                                    /\ EndsWith(es[j].file, PostFix(a))}
        pairs == {<<a.sourcelang, a.destlang>>, <<a.sourcelang, a.destlang2>>,
                  <<a.destlang, a.destlang2>>}
    IN {AbsPath(DiffName(Join(es[j].subdir, es[j].file), pr[1], pr[2])) :
          j \in src, pr \in pairs}

Init ==
    /\ args \in [inputdir : InputDirs, inputdir2 : InputDirs2,
                 inputdir3 : InputDirs3, outputfile : {Lit("tests.html")},
                 CREATE_DIFF : BOOLEAN, ENABLE_TIMESTAMPS : BOOLEAN,
                 sourcelang : SourceLangs, destlang : DestLangs,
                 destlang2 : DestLangs2]
    /\ DIFF_ENABLED \in BOOLEAN
    /\ tree \in Trees
    /\ fs = TreeFiles(args.inputdir, tree) \cup EarlierDiffs(args, tree)
    /\ doc = <<>>
    /\ log = <<>>
    /\ pc = "start"
    /\ exc = "none"
    /\ useThirdLang = FALSE
    /\ sourceFiles = <<>> /\ sourcePaths = <<>>
    /\ destFiles = <<>> /\ destPaths = <<>>
    /\ destFiles2 = <<>> /\ destPaths2 = <<>>
    /\ row = 1
    /\ curPath = Empty
    /\ diffPath = Unbound /\ diffPath2 = Unbound /\ diffPath3 = Unbound
    /\ call = NoCall

\* ---------------------------------------------------------------- actions
\* Lines 56-87: the head of the document, the heading, the warning when
\* diffs are asked for without the image library, the directory defaults.
WriteHead ==
    /\ pc = "start"
    /\ useThirdLang' = UseThirdLang(args)
    /\ doc' = <<Tok("html", Empty), Tok("style", Empty), Tok("body", Empty),
                Tok("h3", Heading(args, UseThirdLang(args)))>>
    /\ log' = IF ~DIFF_ENABLED /\ args.CREATE_DIFF
              THEN Append(log, Tok("ignored", Empty)) ELSE log
    /\ args' = FillDirs(args, UseThirdLang(args))
    /\ pc' = "discover"
    /\ UNCHANGED <<DIFF_ENABLED, tree, fs, exc, sourceFiles, sourcePaths,
                   destFiles, destPaths, destFiles2, destPaths2, row,
                   curPath, diffPath, diffPath2, diffPath3, call>>

\* Lines 89-96: the files of the walk whose name ends with the postfix
Discover ==
    /\ pc = "discover"
    /\ LET found == SelectSeq(WalkEntries(args.inputdir, tree),
                        LAMBDA e : EndsWith(e.file, args.sourcelang \o png))
       IN /\ sourceFiles' = [j \in 1..Len(found) |-> found[j].file]
          /\ sourcePaths' = [j \in 1..Len(found) |-> found[j].subdir]
    /\ pc' = "resolve"
    /\ UNCHANGED <<args, DIFF_ENABLED, tree, fs, doc, log, exc, useThirdLang,
                   destFiles, destPaths, destFiles2, destPaths2, row,
                   curPath, diffPath, diffPath2, diffPath3, call>>

\* Lines 98-124: the destination names and directories of every source
Resolve ==
    /\ pc = "resolve"
    /\ destFiles' = [j \in 1..Len(sourceFiles) |->
                       IF HasDest(args)
                       THEN DestFileName(sourceFiles[j], PostFix(args), args.destlang)
                       ELSE Empty]
    /\ destPaths' = [j \in 1..Len(sourceFiles) |->
                       IF HasDest(args)
                       THEN Join(args.inputdir2, sourcePaths[j]) ELSE None]
    /\ destFiles2' = [j \in 1..Len(sourceFiles) |->
                        IF useThirdLang
                        THEN DestFileName(sourceFiles[j], PostFix(args), args.destlang2)
                        ELSE Empty]
    /\ destPaths2' = [j \in 1..Len(sourceFiles) |->
                        IF useThirdLang
                        THEN Join(args.inputdir2, sourcePaths[j]) ELSE None]
    /\ pc' = "loop"
    /\ UNCHANGED <<args, DIFF_ENABLED, tree, fs, doc, log, exc, useThirdLang,
                   sourceFiles, sourcePaths, row, curPath, diffPath,
                   diffPath2, diffPath3, call>>

\* Lines 128-139: the next row; a new table when its directory changes
BeginRow ==
    /\ pc = "loop"
    /\ row <= Len(sourceFiles)
    /\ doc' = doc \o GroupHeader(curPath, sourcePaths[row])
    /\ curPath' = sourcePaths[row]
    /\ pc' = "diff1"
    /\ UNCHANGED <<args, DIFF_ENABLED, tree, fs, log, exc, useThirdLang,
                   sourceFiles, sourcePaths, destFiles, destPaths,
                   destFiles2, destPaths2, row, diffPath, diffPath2,
                   diffPath3, call>>

\* Lines 141-145: the diff of the source and the first destination
Diff1 ==
    /\ pc = "diff1"
    /\ IF Truthy(sourceFiles[row]) /\ Truthy(destFiles[row]) /\ DiffActive(args)
       THEN /\ diffPath' = DiffName(fullSourcePath, args.sourcelang, args.destlang)
            /\ CallCreateDiff(fullSourcePath, fullDestPath, diffPath', "diff2")
       ELSE /\ diffPath' = None
            /\ pc' = "diff2"
            /\ UNCHANGED <<fs, log, exc, call>>
    /\ UNCHANGED <<args, DIFF_ENABLED, tree, doc, useThirdLang, sourceFiles,
                   sourcePaths, destFiles, destPaths, destFiles2, destPaths2,
                   row, curPath, diffPath2, diffPath3>>

\* Lines 147-149 and 152-153: the diff of the source and the second
\* destination; without it diffPath2 is None and diffPath3 is not assigned
Diff2 ==
    /\ pc = "diff2"
    /\ IF useThirdLang /\ Truthy(sourceFiles[row]) /\ Truthy(destFiles2[row])
          /\ DiffActive(args)
       THEN /\ diffPath2' = DiffName(fullSourcePath, args.sourcelang, args.destlang2)
            /\ CallCreateDiff(fullSourcePath, fullDestPath2, diffPath2', "diff3")
       ELSE /\ diffPath2' = None
            /\ pc' = "imagerow"
            /\ UNCHANGED <<fs, log, exc, call>>
    /\ UNCHANGED <<args, DIFF_ENABLED, tree, doc, useThirdLang, sourceFiles,
                   sourcePaths, destFiles, destPaths, destFiles2, destPaths2,
                   row, curPath, diffPath, diffPath3>>

\* Lines 150-151: the diff of the two destinations
Diff3 ==
    /\ pc = "diff3"
    /\ diffPath3' = DiffName(fullSourcePath, args.destlang, args.destlang2)
    /\ CallCreateDiff(fullDestPath, fullDestPath2, diffPath3', "imagerow")
    /\ UNCHANGED <<args, DIFF_ENABLED, tree, doc, useThirdLang, sourceFiles,
                   sourcePaths, destFiles, destPaths, destFiles2, destPaths2,
                   row, curPath, diffPath, diffPath2>>

\* Lines 155-173: the row of images.  Reading diffPath3 before any
\* assignment to it raises UnboundLocalError.
ImageRow ==
    /\ pc = "imagerow"
    /\ LET cells == ImageCells(args, fullSourcePath, fullDestPath,
                               fullDestPath2, diffPath, diffPath2)
       IN IF diffPath3 = Unbound
          THEN /\ doc' = doc \o cells
               /\ pc' = "crashed"
               /\ exc' = "UnboundLocalError"
          ELSE /\ doc' = doc \o cells
                      \o (IF Truthy(diffPath3)
                          THEN <<ImgCell(args, diffPath3)>> ELSE <<>>)
                      \o <<Tok("/tr", Empty)>>
               /\ pc' = "captionrow"
               /\ exc' = exc
    /\ UNCHANGED <<args, DIFF_ENABLED, tree, fs, log, useThirdLang,
                   sourceFiles, sourcePaths, destFiles, destPaths,
                   destFiles2, destPaths2, row, curPath, diffPath, diffPath2,
                   diffPath3, call>>

\* Lines 175-197: the row of captions
CaptionRow ==
    /\ pc = "captionrow"
    /\ LET c1 == CaptionCell(args, fs, fullSourcePath, sourceFiles[row])
           c2 == CaptionCell(args, fs, fullDestPath, destFiles[row])
           c3 == CaptionCell(args, fs, fullDestPath2, destFiles2[row])
           head == <<Tok("tr", Empty)>>
       IN IF c1.raised
          THEN doc' = doc \o head \o c1.toks
               /\ pc' = "crashed" /\ exc' = "TypeError" /\ row' = row
          ELSE IF c2.raised
          THEN doc' = doc \o head \o c1.toks \o c2.toks
               /\ pc' = "crashed" /\ exc' = "TypeError" /\ row' = row
          ELSE IF c3.raised
          THEN doc' = doc \o head \o c1.toks \o c2.toks \o c3.toks
               /\ pc' = "crashed" /\ exc' = "TypeError" /\ row' = row
          ELSE doc' = doc \o head \o c1.toks \o c2.toks \o c3.toks
                       \o DiffCaptions(args, diffPath, diffPath2, diffPath3)
                       \o <<Tok("/tr", Empty)>>
               /\ pc' = "loop" /\ exc' = exc /\ row' = row + 1
    /\ UNCHANGED <<args, DIFF_ENABLED, tree, fs, log, useThirdLang,
                   sourceFiles, sourcePaths, destFiles, destPaths,
                   destFiles2, destPaths2, curPath, diffPath, diffPath2,
                   diffPath3, call>>

\* Lines 199-201: after the last row, or when there is none
Close ==
    /\ pc = "loop"
    /\ row > Len(sourceFiles)
    /\ doc' = doc \o <<Tok("/table", Empty), Tok("/body", Empty),
                       Tok("/html", Empty)>>
    /\ pc' = "done"
    /\ UNCHANGED <<args, DIFF_ENABLED, tree, fs, log, exc, useThirdLang,
                   sourceFiles, sourcePaths, destFiles, destPaths,
                   destFiles2, destPaths2, row, curPath, diffPath, diffPath2,
                   diffPath3, call>>

Next ==
    \/ WriteHead
    \/ Discover
    \/ Resolve
    \/ BeginRow
    \/ Diff1
    \/ Diff2
    \/ Diff3
    \/ ImageRow
    \/ CaptionRow
    \/ Close

Spec == Init /\ [][Next]_vars

\* ------------------------------------------------------------- properties
Count(k) == Cardinality({n \in DOMAIN doc : doc[n].k = k})

DiffSuffix == <<"_", "d", "i", "f", "f">> \o png

\* The rows the report loop has begun.
Started ==
    IF pc \in {"start", "discover", "resolve"} THEN 0
    ELSE IF pc \in {"loop", "done"} THEN row - 1
    ELSE row

\* The rows that open a group: the first, and each whose directory is not
\* that of the row before.
RunStarts(n) ==
    {j \in 1..n : j = 1 \/ sourcePaths[j] # sourcePaths[j - 1]}

InRow == pc \in {"diff1", "diff2", "diff3", "imagerow", "captionrow"}

\* C1: main ends without an unhandled exception, whatever the flags and
\* the directory hold.
C1_NoUnhandledException == pc # "crashed"

\* C2: every call of createDiff that main makes returns to main.
C2_CreateDiffReturns == call.made => ~call.raised

\* C3: after a createDiff call given two paths of which one was not on
\* disk, no file is at the diff path and exactly one "missing" line naming
\* an input that was not on disk has been printed by the call.
C3_MissingInputLeavesNoDiff ==
    (/\ call.made
     /\ call.image1Path # None /\ call.image2Path # None
     /\ {call.image1Path, call.image2Path} \ call.before # {})
    => /\ ~call.raised
       /\ ~Exists(fs, call.imageDiffPath)
       /\ Len(call.printed) = 1
       /\ call.printed[1].k = "missing"
       /\ call.printed[1].v \in {call.image1Path, call.image2Path} \ call.before

\* C3 witness: a call whose second input was missing and whose diff path
\* held a file from an earlier run.
C3_Witness ==
    /\ call.made /\ ~call.raised
    /\ call.image1Path \in call.before
    /\ call.image2Path # None /\ call.image2Path \notin call.before
    /\ call.imageDiffPath \in call.before

\* C4: a destination 1 name that is present is the source name with the
\* trailing <sourcelang>.png replaced by <destlang>.png and nothing else
\* changed.
C4_DestNameReplacesSuffix ==
    \A j \in 1..Len(destFiles) :
        destFiles[j] # Empty =>
            \E n \in 0..Len(sourceFiles[j]) :
                LET stem == SubSeq(sourceFiles[j], 1, n)
                IN /\ sourceFiles[j] = stem \o args.sourcelang \o png
                   /\ destFiles[j] = stem \o args.destlang \o png

\* C4 witness: a resolved row whose source language has three letters
\* and whose destination language has four.
C4_Witness ==
    /\ Len(destFiles) >= 1
    /\ destFiles[1] # Empty
    /\ args.sourcelang = osl /\ args.destlang = glsl

\* The directory of a source taken relative to the first input root.
RelativeTo(sourcePath, top) ==
    IF sourcePath = top THEN Empty
    ELSE SubSeq(sourcePath, Len(top) + 2, Len(sourcePath))

\* C5: the directory of destination 1 is the second input root joined
\* with the directory of the source relative to the first input root.
C5_DestDirUnderSecondRoot ==
    \A j \in 1..Len(destPaths) :
        destPaths[j] # None =>
            AbsPath(destPaths[j]) =
                AbsPath(Join(args.inputdir2,
                             RelativeTo(sourcePaths[j], args.inputdir)))

\* C6: the table tags of the document are balanced: a closing tag closes
\* a table that is open, at most one table is open, and none is open
\* once main is done.
C6_TablesBalanced ==
    /\ \A n \in 0..Len(doc) :
          LET opened == Cardinality({m \in 1..n : doc[m].k = "table"})
              closed == Cardinality({m \in 1..n : doc[m].k = "/table"})
          IN closed <= opened /\ opened <= closed + 1
    /\ pc = "done" => Count("table") = Count("/table")

\* C7: a diff cell of the report shows a diff image that was generated.
C7_DiffCellOnlyWhenGenerated ==
    \A n \in DOMAIN doc :
        (doc[n].k = "imgcell" /\ EndsWith(doc[n].v, DiffSuffix))
            => Exists(fs, doc[n].v)

\* The diff path of a pairing as the claim states it: the source path
\* without <sourcelang>.png, then _<langA>_vs_<langB>_diff.png.
IsDiffOf(path, langA, langB) ==
    \E n \in 0..Len(fullSourcePath) :
        LET stem == SubSeq(fullSourcePath, 1, n)
        IN /\ fullSourcePath = stem \o args.sourcelang \o png
           /\ path = stem \o <<"_">> \o langA \o <<"_", "v", "s", "_">>
                       \o langB \o DiffSuffix

\* C8: each diff path is the source path with exactly its trailing
\* <sourcelang>.png removed, followed by _<langA>_vs_<langB>_diff.png.
C8_DiffPathStripsSuffix ==
    InRow =>
        /\ Truthy(diffPath) /\ diffPath # Unbound /\ pc # "diff1"
              => IsDiffOf(diffPath, args.sourcelang, args.destlang)
        /\ Truthy(diffPath2) /\ diffPath2 # Unbound /\ pc \notin {"diff1", "diff2"}
              => IsDiffOf(diffPath2, args.sourcelang, args.destlang2)
        /\ Truthy(diffPath3) /\ diffPath3 # Unbound
              /\ pc \notin {"diff1", "diff2", "diff3"}
              => IsDiffOf(diffPath3, args.destlang, args.destlang2)

\* C9: a label and a table are opened exactly for the rows that start a
\* run of equal source directories, in row order, each table but the first
\* right after the closing tag of the one before.
C9_TablePerRun ==
    LET starts == RunStarts(Started)
        labels == SelectSeq(doc, LAMBDA t : t.k = "p")
    IN /\ Count("table") = Cardinality(starts)
       /\ Len(labels) = Cardinality(starts)
       /\ \A m \in 1..Len(labels) :
             \E j \in starts :
                /\ Cardinality({h \in starts : h <= j}) = m
                /\ labels[m].v = NormPath(sourcePaths[j])
       /\ \A n \in DOMAIN doc :
             doc[n].k = "table" =>
                /\ doc[n - 1].k = "p"
                /\ (\E m \in 1..(n - 1) : doc[m].k = "table")
                      => doc[n - 2].k = "/table"
       /\ Count("/table") = (IF pc = "done" THEN 1 ELSE 0)
              + (IF starts = {} THEN 0 ELSE Cardinality(starts) - 1)

\* C9 witness: a finished report of two groups.
C9_Witness == pc = "done" /\ Count("table") = 2 /\ Len(sourceFiles) = 2

\* C10: when main has ended, the caption rows hold one opening and one
\* closing cell tag for every cell of the image rows.
C10_CaptionsMirrorImages ==
    pc \in {"done", "crashed"} =>
        /\ Count("td") + Count("diffcap") = Count("imgcell")
        /\ Count("/td") = Count("td")

====
